---- MODULE Spec2Model ----
(***************************************************************************)
(* Monitor GS1 -> EDI (src/app.py, monitor_ui): the paginated, classified  *)
(* view of the LegacyJobs table, its two exclusive filter checkboxes and   *)
(* its page navigation.  One action is one run of the Streamlit script,    *)
(* started by one operator event; st.rerun() starts a further run.         *)
(***************************************************************************)
EXTENDS Integers, Sequences, FiniteSets, TLC

Max(a, b) == IF a >= b THEN a ELSE b
Min(a, b) == IF a <= b THEN a ELSE b
Range(s) == { s[i] : i \in 1..Len(s) }

\* A function written as a table: every entry is computed once, when the
\* table is built, and then looked up.
Table(f) == f @@ << >>

(***************************************************************************)
(* Text.  A string is a sequence of one-character strings, so that search  *)
(* and case folding are computed character by character.  A character     *)
(* that is not printable ASCII is written by its code point: "U+017F" is   *)
(* one character, LATIN SMALL LETTER LONG S.                               *)
(***************************************************************************)
\* A-Z and the capital letters of Latin-1, with their lower case
UpperCase == << "A","B","C","D","E","F","G","H","I","J","K","L","M",
                "N","O","P","Q","R","S","T","U","V","W","X","Y","Z",
                "U+00C0","U+00C1","U+00C2","U+00C3","U+00C4","U+00C5","U+00C6","U+00C7",
                "U+00C8","U+00C9","U+00CA","U+00CB","U+00CC","U+00CD","U+00CE","U+00CF",
                "U+00D0","U+00D1","U+00D2","U+00D3","U+00D4","U+00D5","U+00D6","U+00D8",
                "U+00D9","U+00DA","U+00DB","U+00DC","U+00DD","U+00DE" >>
LowerCase == << "a","b","c","d","e","f","g","h","i","j","k","l","m",
                "n","o","p","q","r","s","t","u","v","w","x","y","z",
                "U+00E0","U+00E1","U+00E2","U+00E3","U+00E4","U+00E5","U+00E6","U+00E7",
                "U+00E8","U+00E9","U+00EA","U+00EB","U+00EC","U+00ED","U+00EE","U+00EF",
                "U+00F0","U+00F1","U+00F2","U+00F3","U+00F4","U+00F5","U+00F6","U+00F8",
                "U+00F9","U+00FA","U+00FB","U+00FC","U+00FD","U+00FE" >>

\* The characters that re.IGNORECASE equates with an ASCII letter besides
\* the letter's two cases: long s, dotted capital I, dotless i, Kelvin sign.
AlsoMatches == << << "U+017F", "s" >>, << "U+0130", "i" >>, << "U+0131", "i" >>,
                 << "U+212A", "k" >> >>

\* re.IGNORECASE / case=False: both sides are compared case-folded.
Fold(c) == IF \E i \in 1..Len(UpperCase) : UpperCase[i] = c
           THEN LowerCase[CHOOSE i \in 1..Len(UpperCase) : UpperCase[i] = c]
           ELSE IF \E i \in 1..Len(AlsoMatches) : AlsoMatches[i][1] = c
           THEN AlsoMatches[CHOOSE i \in 1..Len(AlsoMatches) : AlsoMatches[i][1] = c][2]
           ELSE c

\* The characters the regular expression class \s matches in a str pattern:
\* those of str.isspace().
Whitespace == { " ", "\t", "\n", "\r", "\f",
                "U+000B","U+001C","U+001D","U+001E","U+001F","U+0085","U+00A0","U+1680",
                "U+2000","U+2001","U+2002","U+2003","U+2004","U+2005","U+2006","U+2007",
                "U+2008","U+2009","U+200A","U+2028","U+2029","U+202F","U+205F","U+3000" }

\* The token that stands for \s* in a pattern; every other token is the
\* literal character it names (\. \( \) are the literal . ( )).
WsStar == "\\s*"

\* critical_pattern: an alternation of four token sequences.
critical_pattern == <<
  <<
     "E","r","r","o","r"," ","a","l"," ","d","a","r"," ","d","e"," ","a","l","t","a"," ",
     "l","a"," ","e","m","p","r","e","s","a" >>,
  <<
     "E","r","r","o","r"," ","e","n"," ","e","l"," ","a","l","t","a"," ","d","e"," ","l",
     "a"," ","e","m","p","r","e","s","a",".","\\s*","-","\\s*","I","n","v","a","l","i","d",
     " ","a","r","g","u","m","e","n","t"," ","s","u","p","p","l","i","e","d"," ","f","o",
     "r"," ","f","o","r","e","a","c","h","(",")" >>,
  <<
     "N","o"," ","e","x","i","s","t","e"," ","l","a"," ","e","m","p","r","e","s","a",",",
     " ","n","o"," ","s","e"," ","c","r","e","o"," ","e","l"," ","u","s","u","a","r","i","o" >>,
  <<
     "N","o"," ","e","x","i","s","t","e"," ","e","l"," ","u","s","u","a","r","i","o",",",
     " ","n","o"," ","s","e"," ","c","r","e","o"," ","e","l"," ","u","s","u","a","r","i","o" >>
  >>

\* re.search of one alternative at position i of s, from token k on.
\* \s* is greedy with backtracking: it may take no character, or one more.
RECURSIVE MatchAt(_, _, _, _)
MatchAt(alt, k, s, i) ==
    IF k > Len(alt) THEN TRUE
    ELSE IF alt[k] = WsStar
         THEN \/ MatchAt(alt, k + 1, s, i)
              \/ /\ i <= Len(s)
                 /\ s[i] \in Whitespace
                 /\ MatchAt(alt, k, s, i + 1)
         ELSE /\ i <= Len(s)
              /\ Fold(s[i]) = Fold(alt[k])
              /\ MatchAt(alt, k + 1, s, i + 1)

\* Series.str.contains(pat, case=False): the pattern is searched anywhere
\* in the text.
StrContainsAtStart(pat, s) ==
    \E a \in 1..Len(pat) : MatchAt(pat[a], 1, s, 1)
StrContains(pat, s) ==
    \E a \in 1..Len(pat) : \E i \in 1..(Len(s) + 1) : MatchAt(pat[a], 1, s, i)

(***************************************************************************)
(* Values of the MotivoRechazo column.  NULL is SQL NULL (Python None);   *)
(* Number(n) is a value that is not a text, the integer n.                 *)
(***************************************************************************)
NULL == [null |-> TRUE]
Text(s) == [null |-> FALSE, text |-> s]
Number(n) == [null |-> FALSE, number |-> n]

IsNumber(v) == ~v.null /\ "number" \in DOMAIN v

\* str(n) of an integer n >= 0
DecimalDigits == << "0","1","2","3","4","5","6","7","8","9" >>

RECURSIVE Decimal(_)
Decimal(n) ==
    IF n < Len(DecimalDigits) THEN << DecimalDigits[n + 1] >>
    ELSE Decimal(n \div Len(DecimalDigits)) \o << DecimalDigits[(n % Len(DecimalDigits)) + 1] >>

\* Series.astype(str): None becomes the text 'None', a number its decimal
\* text, a text stays itself.
AsType_str(v) ==
    IF v.null THEN << "N","o","n","e" >>
    ELSE IF IsNumber(v) THEN Decimal(v.number)
    ELSE v.text

\* bool(v) is False: None, 0 and the empty text
Falsy(v) ==
    \/ v.null
    \/ IsNumber(v) /\ v.number = 0
    \/ ~IsNumber(v) /\ v.text = << >>

Reason_AltaEmpresa == Text(<<
    "E","r","r","o","r"," ","a","l"," ","d","a","r"," ","d","e"," ","a","l","t","a"," ","l",
    "a"," ","e","m","p","r","e","s","a" >>)

Reason_Timeout == Text(<<
    "t","i","m","e","o","u","t"," ","c","o","n","t","a","c","t","i","n","g"," ","p","a","r",
    "t","n","e","r" >>)

Reason_UpperEmbedded == Text(<<
    "r","e","f"," ","7",":"," ","N","O"," ","E","X","I","S","T","E"," ","L","A"," ","E","M",
    "P","R","E","S","A",","," ","N","O"," ","S","E"," ","C","R","E","O"," ","E","L"," ","U",
    "S","U","A","R","I","O"," ","(","x",")" >>)

Reason_Foreach == Text(<<
    "E","r","r","o","r"," ","e","n"," ","e","l"," ","a","l","t","a"," ","d","e"," ","l","a",
    " ","e","m","p","r","e","s","a","."," ","-"," ","I","n","v","a","l","i","d"," ","a","r",
    "g","u","m","e","n","t"," ","s","u","p","p","l","i","e","d"," ","f","o","r"," ","f","o",
    "r","e","a","c","h","(",")" >>)

Reason_PrefixOnly == Text(<<
    "E","r","r","o","r"," ","e","n"," ","e","l"," ","a","l","t","a"," ","d","e"," ","l","a",
    " ","e","m","p","r","e","s","a" >>)

Reason_MixedUsuario == Text(<<
    "n","o"," ","e","x","i","s","t","e"," ","e","l"," ","U","s","u","a","r","i","o",","," ",
    "n","o"," ","s","e"," ","c","r","e","o"," ","e","l"," ","U","S","U","A","R","I","O" >>)

Reason_ForeachTight == Text(<<
    "E","r","r","o","r"," ","e","n"," ","e","l"," ","a","l","t","a"," ","d","e"," ","l","a",
    " ","e","m","p","r","e","s","a",".","-","I","n","v","a","l","i","d"," ","a","r","g","u",
    "m","e","n","t"," ","s","u","p","p","l","i","e","d"," ","f","o","r"," ","f","o","r","e",
    "a","c","h","(",")" >>)

Reason_ForeachNoDot == Text(<<
    "E","r","r","o","r"," ","e","n"," ","e","l"," ","a","l","t","a"," ","d","e"," ","l","a",
    " ","e","m","p","r","e","s","a",","," ","-"," ","I","n","v","a","l","i","d"," ","a","r",
    "g","u","m","e","n","t"," ","s","u","p","p","l","i","e","d"," ","f","o","r"," ","f","o",
    "r","e","a","c","h","(",")" >>)

Reason_ForeachWide == Text(<<
    "e","r","r","o","r"," ","e","n"," ","e","l"," ","a","l","t","a"," ","d","e"," ","l","a",
    " ","e","m","p","r","e","s","a",".","\t","-"," "," ","i","n","v","a","l","i","d"," ",
    "a","r","g","u","m","e","n","t"," ","s","u","p","p","l","i","e","d"," ","f","o","r"," ",
    "f","o","r","e","a","c","h","(",")" >>)

\* phrase 1 written with a long s
Reason_LongS == Text(<<
    "E","r","r","o","r"," ","a","l"," ","d","a","r"," ","d","e"," ","a","l","t","a"," ",
    "l","a"," ","e","m","p","r","e","U+017F","a" >>)

\* phrase 2 with a vertical tab before the hyphen and a no-break space after
Reason_ForeachVtab == Text(<<
    "E","r","r","o","r"," ","e","n"," ","e","l"," ","a","l","t","a"," ","d","e"," ","l",
    "a"," ","e","m","p","r","e","s","a",".","U+000B","-","U+00A0","I","n","v","a","l",
    "i","d"," ","a","r","g","u","m","e","n","t"," ","s","u","p","p","l","i","e","d"," ",
    "f","o","r"," ","f","o","r","e","a","c","h","(",")" >>)

\* phrase 4 written with a dotted capital I and a dotless i
Reason_DottedUsuario == Text(<<
    "n","o"," ","e","x","U+0130","s","t","e"," ","e","l"," ","u","s","u","a","r",
    "U+0131","o",","," ","n","o"," ","s","e"," ","c","r","e","o"," ","e","l"," ","u",
    "s","u","a","r","i","o" >>)

(***************************************************************************)
(* The LegacyJobs table.  A store holds the jobs 1..njobs of a fixed       *)
(* universe; a job's columns are functions of its Id.                      *)
(***************************************************************************)
MaxJobs == 102        \* size of the largest store
SmallStore == 3       \* size of the three-row store
TieId == 52           \* the job that shares its FechaAlta with job TieId - 1
OldId == 4            \* a job older than the 30-day window
HoursPerJob == 7      \* hours between two consecutive jobs

LongSId == 12         \* the job whose reason is Reason_LongS
VtabId == 22          \* the job whose reason is Reason_ForeachVtab
DottedId == 30        \* the job whose reason is Reason_DottedUsuario

\* the reasons that recur from job to job, and the three that occur once
CommonReasons == << Reason_AltaEmpresa, NULL, Reason_Timeout, Text(<< >>),
                    Reason_UpperEmbedded, Reason_ForeachTight, Reason_PrefixOnly,
                    Reason_MixedUsuario, Reason_Foreach, Reason_ForeachNoDot,
                    Reason_ForeachWide >>

ReasonValues == CommonReasons \o << Reason_LongS, Reason_ForeachVtab, Reason_DottedUsuario >>

ReasonIndex(id) ==
    IF id = LongSId THEN Len(CommonReasons) + 1
    ELSE IF id = VtabId THEN Len(CommonReasons) + 2
    ELSE IF id = DottedId THEN Len(CommonReasons) + 3
    ELSE ((id - 1) % Len(CommonReasons)) + 1
MotivoRechazo(id) == ReasonValues[ReasonIndex(id)]

Plataforma(id) == IF id % 27 = 0 THEN "AltaEmpresa" ELSE "EDI"

\* Time in hours.  A day is the hour at which it starts; today is the day
\* the session begins, Days the days the clock may show during the session.
today == 720
Days == { today, today + 24 }

\* end_date = datetime.now().date() + timedelta(days=1)
EndDate(day) == day + 24
\* start_date = datetime.now().date() - timedelta(days=30)
StartDate(day) == day - 30 * 24

\* The clock is read twice in a run, for end_date and then for start_date;
\* midnight may pass between the two reads.  A window is << start, end >>.
Window(day, midnight) == << StartDate(IF midnight THEN day + 24 ELSE day), EndDate(day) >>

Windows == { Window(d, m) : d \in Days, m \in BOOLEAN }

\* The oldest job of the largest store lies in the first day of today's
\* window.
FechaAlta(id) ==
    IF id = OldId THEN StartDate(today) - 24
    ELSE IF id = TieId THEN EndDate(today) - HoursPerJob * (id - 1)
    ELSE IF id = MaxJobs THEN StartDate(today) + HoursPerJob
    ELSE EndDate(today) - HoursPerJob * id

StoreSizes == { 0, SmallStore, MaxJobs - 1, MaxJobs }

(***************************************************************************)
(* The selectboxes and the two queries.                                    *)
(***************************************************************************)
PageSizes == << 50, 100, 200, 500 >>
plataformas == << "(todas)", "EDI", "AltaEmpresa", "BajaEmpresa", "AltaUsuario" >>

None == "None"

plat_param(sel) == IF sel = "(todas)" THEN None ELSE sel
PlatParams == { plat_param(plataformas[i]) : i \in 1..Len(plataformas) }

\* WHERE j.FechaAlta >= :start AND j.FechaAlta < :end
\*   AND (:plat IS NULL OR j.Plataforma = :plat)
Where(n, plat, w) ==
    { id \in 1..n : /\ FechaAlta(id) >= w[1]
                    /\ FechaAlta(id) < w[2]
                    /\ (plat = None \/ Plataforma(id) = plat) }

\* SQL_COUNT ... .scalar() or 0
SqlCountTable ==
    Table([n \in StoreSizes, plat \in PlatParams, w \in Windows |->
              Cardinality(Where(n, plat, w))])
SQL_COUNT(n, plat, w) == SqlCountTable[n, plat, w]

\* ORDER BY j.FechaAlta DESC names no second key: among jobs of equal
\* FechaAlta the server may return either order.  A tie break is the order
\* the server happens to use for them.
TieBreaks == { "IdAsc", "IdDesc" }

Before(a, b, tb) ==
    \/ FechaAlta(a) > FechaAlta(b)
    \/ /\ FechaAlta(a) = FechaAlta(b)
       /\ IF tb = "IdAsc" THEN a < b ELSE a > b

OrderBy(S, tb) ==
    LET rank == Table([id \in S |-> Cardinality({ o \in S : Before(o, id, tb) })])
    IN  [k \in 1..Cardinality(S) |-> CHOOSE id \in S : rank[id] = k - 1]

SqlOrderTable ==
    Table([n \in StoreSizes, plat \in PlatParams, w \in Windows, tb \in TieBreaks |->
              Table(OrderBy(Where(n, plat, w), tb))])

\* OFFSET :off ROWS FETCH NEXT :psz ROWS ONLY; the rows are the DataFrame df
\* (one job Id per row).
Fetch(ordered, off, psz) == SubSeq(ordered, off + 1, Min(off + psz, Len(ordered)))

SQL_PAGE(n, plat, w, off, psz, tb) == Fetch(SqlOrderTable[n, plat, w, tb], off, psz)

(***************************************************************************)
(* Semaforo: the classification of the page's rows and the two counts.     *)
(***************************************************************************)
\* .astype(str).str.contains(critical_pattern, case=False, na=False) of one value
IsCritical(v) == StrContains(critical_pattern, AsType_str(v))

CriticalOf == Table([r \in 1..Len(ReasonValues) |-> IsCritical(ReasonValues[r])])

\* crit_mask = df['MotivoRechazo'].astype(str).str.contains(...): one flag per row
CritMask(rows) == [i \in 1..Len(rows) |-> CriticalOf[ReasonIndex(rows[i])]]

\* int(crit_mask.sum())
MaskSum(mask) == Cardinality({ i \in 1..Len(mask) : mask[i] })

\* ok_count = int(len(df) - crit_count)
OkCountOfTotal(rows, cc, tot) == tot - cc
OkCount(rows, cc, tot) == Len(rows) - cc

(***************************************************************************)
(* The exclusive checkboxes.                                               *)
(***************************************************************************)
\* keep = st.session_state.last_toggle or 'crit'
KeepOkByDefault(lt) == IF lt = None THEN "ok" ELSE lt
Keep(lt) == IF lt = None THEN "crit" ELSE lt

\* if show_only_crit and show_only_ok: the flag that is not kept is forced off
ResolveCritNever(crit, ok, lt) == crit
ResolveCrit(crit, ok, lt) ==
    IF crit /\ ok /\ Keep(lt) # "crit" THEN FALSE ELSE crit

ResolveOk(crit, ok, lt) ==
    IF crit /\ ok /\ Keep(lt) = "crit" THEN FALSE ELSE ok

\* disabled=st.session_state.show_only_ok (show_only_crit for the other
\* checkbox): a checkbox is drawn disabled while the other flag is set
CheckboxEnabledAlways(other_flag) == FALSE
CheckboxDisabled(other_flag) == other_flag

\* st.checkbox(..., key=...): the checkbox shows the session value of its
\* key and returns it; the operator's click was stored under the key before
\* the run began, so drawing the checkbox changes nothing.
Checkbox(value) == value

\* The if / elif / elif that follows the checkboxes.  prev_crit and prev_ok
\* are read before the checkboxes are drawn, crit and ok after.
TrackToggle(crit, ok, prev_crit, prev_ok, lt) ==
    IF crit /\ ~prev_crit THEN "crit"
    ELSE IF ok /\ ~prev_ok THEN "ok"
    ELSE IF (~crit /\ prev_crit) \/ (~ok /\ prev_ok) THEN None
    ELSE lt

\* Dataset a mostrar: display_df
Select(rows, mask, keep) ==
    LET pairs == [i \in 1..Len(rows) |-> << rows[i], mask[i] >>]
        Hit(p) == p[2] = keep
        sel == SelectSeq(pairs, Hit)
    IN  [k \in 1..Len(sel) |-> sel[k][1]]

DisplayDfOkAll(crit, ok, rows, mask) ==
    IF crit THEN Select(rows, mask, TRUE) ELSE rows
DisplayDf(crit, ok, rows, mask) ==
    IF crit THEN Select(rows, mask, TRUE)
    ELSE IF ok THEN Select(rows, mask, FALSE)
    ELSE rows

(***************************************************************************)
(* Navegacion.                                                             *)
(***************************************************************************)
\* offset = max((page-1)*page_size, 0)
OffsetOfPageEnd(pg, psz) == pg * psz
Offset(pg, psz) == Max((pg - 1) * psz, 0)

\* if c.button(...): the call returns True only in the run that the click on
\* that button started (pressed names the button clicked, or is None)
Button(name, pressed) == pressed = name

\* "Anterior": disabled=(page <= 1)
PrevDisabled(pg) == pg <= 1

\* "Siguiente": disabled=(offset + page_size >= total)
NextDisabledStrict(off, psz, tot) == off + psz > tot
NextDisabled(off, psz, tot) == off + psz >= tot

\* max_value=max((total + page_size - 1) // page_size, 1)
LastPageFloor(tot, psz) == Max(tot \div psz, 1)
LastPageNoFloorAtOne(tot, psz) == (tot + psz - 1) \div psz
LastPage(tot, psz) == Max((tot + psz - 1) \div psz, 1)

\* st.session_state.page = max(page - 1, 1)
PrevPage(pg) == Max(pg - 1, 1)
\* st.session_state.page = page + 1
NextPageStays(pg) == pg
NextPage(pg) == pg + 1

\* st.number_input(min_value=1, max_value=..., value=page): the call raises
\* when value lies outside [min_value, max_value]
min_value == 1
NumberInputRaises(value, maxv) == value < min_value \/ value > maxv

\* The number input commits a typed value only when it lies inside
\* [min_value, max_value]; otherwise it reports the value as invalid and
\* keeps what it had.
Accepts(n, maxv) == min_value <= n /\ n <= maxv

(***************************************************************************)
(* The table.  Each row of display_df is drawn with the class              *)
(* "row-critical" or "row-ok".                                             *)
(***************************************************************************)
\* r.get('Respuestas') or "": None and the empty text give ""
OrEmpty(v) == IF Falsy(v) THEN Text(<< >>) ELSE v

\* critical_re.search(str(...)), critical_re compiled with re.IGNORECASE
RowCriticalAtStart(v) == StrContainsAtStart(critical_pattern, AsType_str(OrEmpty(v)))
RowCritical(v) == StrContains(critical_pattern, AsType_str(OrEmpty(v)))

RowCriticalOf == Table([r \in 1..Len(ReasonValues) |-> RowCritical(ReasonValues[r])])

RowClass(id) == IF RowCriticalOf[ReasonIndex(id)] THEN "row-critical" ELSE "row-ok"

\* one <tr>: the row's Id and its class
RowHtmlOf == Table([id \in 1..MaxJobs |-> << id, RowClass(id) >>])

RowsHtml(rows) == [i \in 1..Len(rows) |-> RowHtmlOf[rows[i]]]

(***************************************************************************)
(* The order of the script.  A run executes the statements from the top    *)
(* until it ends, raises, or calls st.rerun(); the positions are the       *)
(* script's line numbers.                                                  *)
(***************************************************************************)
ConnectErrorAt == 102
NoEngineAt == 127
FiltrosAt == 136
CountQueryAt == 171
PageQueryAt == 174
SemaforoAt == 186
MetricsAt == 194
CheckboxesAt == 211
AnteriorAt == 233
AnteriorRerunAt == 235
SiguienteAt == 237
SiguienteRerunAt == 239
NumberInputAt == 241
IrAt == 248
IrRerunAt == 250
TablaAt == 350
WarningAt == 352
EndAt == 376

Blocks == { "filtros", "semaforo", "metrics", "checkboxes", "anterior", "siguiente",
            "goto", "ir", "tabla", "warning" }

BlockAt(b) ==
    CASE b = "filtros"    -> FiltrosAt
      [] b = "semaforo"   -> SemaforoAt
      [] b = "metrics"    -> MetricsAt
      [] b = "checkboxes" -> CheckboxesAt
      [] b = "anterior"   -> AnteriorAt
      [] b = "siguiente"  -> SiguienteAt
      [] b = "goto"       -> NumberInputAt
      [] b = "ir"         -> IrAt
      [] b = "tabla"      -> TablaAt
      [] b = "warning"    -> WarningAt

\* The engine of a run.  With secrets (secrets_ok()) get_engine is called in
\* every run with the same credentials; without them only in the run the
\* login form's "Conectar" started (ok), with the credentials of the form, and
\* in every other run engine stays None.  get_engine is cached by its
\* arguments: for credentials it has returned an engine for it connects no
\* more; for others (fresh) it connects, and the server may refuse.
Engine(secrets, cache, ok, fresh, refused) ==
    IF secrets
    THEN IF refused /\ ~cache THEN "refused" ELSE "engine"
    ELSE IF ~ok THEN "none"
    ELSE IF cache /\ ~fresh THEN "engine"
    ELSE IF refused THEN "none"
    ELSE "engine"

\* The line at which the run stops.  conn is the outcome of Engine, fail
\* names the query that raises (or None), button the button that was pressed
\* (or None), raises tells that the number input rejects its arguments.
StopAt(conn, fail, button, raises) ==
    IF conn = "refused" THEN ConnectErrorAt
    ELSE IF conn = "none" THEN NoEngineAt
    ELSE IF fail = "count" THEN CountQueryAt
    ELSE IF fail = "page" THEN PageQueryAt
    ELSE IF button = "prev" THEN AnteriorRerunAt
    ELSE IF button = "next" THEN SiguienteRerunAt
    ELSE IF raises THEN NumberInputAt
    ELSE IF button = "ir" THEN IrRerunAt
    ELSE EndAt

\* the blocks a run draws before it stops; "if not display_df.empty" draws
\* the table, else the warning (empty tells that display_df is empty)
DrawnAll(stop, empty) == Blocks
Drawn(stop, empty) ==
    { b \in Blocks : /\ BlockAt(b) < stop
                     /\ b = "tabla" => ~empty
                     /\ b = "warning" => empty }

(***************************************************************************)
(* State.                                                                  *)
(***************************************************************************)
VARIABLES
    njobs,            \* the store: LegacyJobs holds the jobs 1..njobs
    now,              \* the clock: the day datetime.now() shows
    secrets_ok,       \* st.secrets holds the four DB_* keys
    cached,           \* get_engine has returned an engine (st.cache_resource)
    page_size,        \* selectbox "Filas por pagina"
    plataforma,       \* selectbox "Plataforma"
    page,             \* st.session_state.page
    show_only_crit,   \* st.session_state.show_only_crit
    show_only_ok,     \* st.session_state.show_only_ok
    last_toggle,      \* st.session_state.last_toggle
    goto,             \* value held by the number input "Ir a pagina"
    start_date,       \* the run's start_date
    end_date,         \* the run's end_date
    shown_page,       \* the run's local page (metric "Pagina"); 0 when none is drawn
    offset,           \* the run's offset
    total,            \* result of SQL_COUNT
    df,               \* result of SQL_PAGE
    crit_mask, crit_count, ok_count,
    display_df,       \* the rows chosen for the table
    prev_disabled, next_disabled,   \* the buttons as the browser shows them
    crit_disabled, ok_disabled,     \* the checkboxes as the browser shows them
    max_value,        \* max_value given to the number input
    jump_ok,          \* the number input and "Ir" were drawn (the call did not raise)
    jump_invalid,     \* "Ir" was pressed while the box held a value the number
                      \* input does not accept
    pc,               \* "run": a script run is pending; "idle": waiting for the operator;
                      \* "failed": an exception is shown; "refused": the connection
                      \* error is shown; "login": the login form is shown
    event,            \* history: the operator's event the last run answers
    recent,           \* history: the filter the operator turned on last
    both_in,          \* history: the last run began with both flags true
    drawn,            \* the blocks of the page the last run drew
    rows_html         \* the table's rows as drawn: << Id, row class >>

vars == << njobs, now, secrets_ok, cached, page_size, plataforma, page, show_only_crit,
           show_only_ok, last_toggle, goto, start_date, end_date, shown_page, offset,
           total, df, crit_mask, crit_count, ok_count, display_df, prev_disabled,
           next_disabled, crit_disabled, ok_disabled, max_value, jump_ok, jump_invalid,
           pc, event, recent, both_in, drawn, rows_html >>

MaxGoto == 4          \* largest value the operator types into "Ir a pagina"

(***************************************************************************)
(* What happens around a run.  n_page is the store as the page query finds *)
(* it (the count query finds njobs), fail the query that raises (or None), *)
(* midnight tells that the day changes between the two reads of the clock, *)
(* refused that the server refuses a connection.                           *)
(***************************************************************************)
Quiet == [ n_page |-> njobs, fail |-> None, midnight |-> FALSE, refused |-> FALSE ]

(***************************************************************************)
(* One run of monitor_ui.  crit_in, ok_in, lt_in are the session's flags   *)
(* when the run begins, ps and plat the selectbox values, g_in the number  *)
(* input's box, button the button that was pressed (or None), ok the value *)
(* of the login form's submit button, fresh whether the form holds         *)
(* credentials no engine is cached for, tb the order the server uses among *)
(* equal FechaAlta.                                                        *)
(***************************************************************************)
ScriptRunOn(env, crit_in, ok_in, lt_in, ps, plat, g_in, button, ok, fresh, tb) ==
    LET conn == Engine(secrets_ok, cached, ok, fresh, env.refused)
        pg == page
        w == Window(now, env.midnight)
        prev_crit == ResolveCrit(crit_in, ok_in, lt_in)
        prev_ok   == ResolveOk(crit_in, ok_in, lt_in)
        tot == SQL_COUNT(njobs, plat_param(plat), w)
        raises == NumberInputRaises(pg, LastPage(tot, ps))
        \* the number input keeps the typed value while it is the same widget:
        \* the run before drew it, with the same value= and max_value=
        same_widget ==
            /\ jump_ok
            /\ "goto" \in drawn
            /\ max_value = LastPage(tot, ps)
            /\ shown_page = pg
        \* the input hands over what the box holds if it lies inside
        \* [min_value, max_value], and the value it had otherwise
        held == IF Accepts(g_in, max_value) THEN g_in ELSE goto
        gval == IF same_widget THEN held ELSE pg
        stop == StopAt(conn, env.fail, button, raises)
    IN  /\ njobs' = env.n_page
        /\ cached' = (cached \/ conn = "engine")
        /\ jump_invalid' = (Button("ir", button) /\ ~Accepts(g_in, max_value))
        /\ UNCHANGED secrets_ok
        /\ IF conn # "engine"
           THEN \* return before "Filtros": no widget of the monitor is drawn, so
                \* the values of the selectboxes, of the number input and of the
                \* two checkbox keys are dropped when the run ends
                /\ page_size' = PageSizes[2]
                /\ plataforma' = "EDI"
                /\ show_only_crit' = FALSE
                /\ show_only_ok' = FALSE
                /\ last_toggle' = lt_in
                /\ page' = pg
                /\ goto' = g_in
                /\ both_in' = FALSE
                /\ shown_page' = 0
                /\ offset' = 0
                /\ total' = 0
                /\ df' = << >>
                /\ crit_mask' = << >>
                /\ crit_count' = 0
                /\ ok_count' = 0
                /\ display_df' = << >>
                /\ rows_html' = << >>
                /\ crit_disabled' = TRUE
                /\ ok_disabled' = TRUE
                /\ prev_disabled' = TRUE
                /\ next_disabled' = TRUE
                /\ max_value' = 1
                /\ jump_ok' = FALSE
                /\ drawn' = Drawn(stop, TRUE)
                /\ pc' = IF conn = "refused" THEN "refused" ELSE "login"
                /\ UNCHANGED << now, start_date, end_date >>
           ELSE /\ now' = (IF env.midnight THEN now + 24 ELSE now)
                /\ start_date' = w[1]
                /\ end_date' = w[2]
                /\ page_size' = ps
                /\ plataforma' = plat
                /\ offset' = Offset(pg, ps)
                /\ both_in' = (env.fail = None /\ crit_in /\ ok_in)
                /\ IF env.fail # None
                   THEN \* the query raises: nothing below it is executed
                        /\ total' = IF env.fail = "page" THEN tot ELSE 0
                        /\ shown_page' = 0
                        /\ df' = << >>
                        /\ crit_mask' = << >>
                        /\ crit_count' = 0
                        /\ ok_count' = 0
                        /\ display_df' = << >>
                        /\ rows_html' = << >>
                        /\ show_only_crit' = crit_in
                        /\ show_only_ok' = ok_in
                        /\ last_toggle' = lt_in
                        /\ crit_disabled' = TRUE
                        /\ ok_disabled' = TRUE
                        /\ prev_disabled' = TRUE
                        /\ next_disabled' = TRUE
                        /\ max_value' = 1
                        /\ jump_ok' = FALSE
                        /\ goto' = g_in
                        /\ page' = pg
                        /\ drawn' = Drawn(stop, TRUE)
                        /\ pc' = "failed"
                   ELSE /\ total' = tot
                        /\ shown_page' = pg
                        /\ df' = SQL_PAGE(env.n_page, plat_param(plat), w, offset', ps, tb)
                        /\ crit_mask' = CritMask(df')
                        /\ crit_count' = MaskSum(crit_mask')
                        /\ ok_count' = OkCount(df', crit_count', total')
                        /\ crit_disabled' = CheckboxDisabled(prev_ok)
                        /\ ok_disabled' = CheckboxDisabled(prev_crit)
                        /\ show_only_crit' = Checkbox(prev_crit)
                        /\ show_only_ok' = Checkbox(prev_ok)
                        /\ last_toggle' =
                               TrackToggle(show_only_crit', show_only_ok', prev_crit,
                                           prev_ok, lt_in)
                        /\ display_df' =
                               DisplayDf(show_only_crit', show_only_ok', df', crit_mask')
                        /\ prev_disabled' = PrevDisabled(pg)
                        \* st.rerun() of "Anterior" ends the run before "Siguiente"
                        \* is drawn: the browser keeps the button it has
                        /\ next_disabled' =
                               IF Button("prev", button) THEN next_disabled
                               ELSE NextDisabled(offset', ps, total')
                        /\ drawn' = Drawn(stop, display_df' = << >>)
                        /\ rows_html' =
                               IF "tabla" \in drawn' THEN RowsHtml(display_df') ELSE << >>
                        /\ IF Button("prev", button)
                           THEN /\ page' = PrevPage(pg)
                                /\ pc' = "run"
                                /\ UNCHANGED << max_value, jump_ok, goto >>
                           ELSE IF Button("next", button)
                           THEN /\ page' = NextPage(pg)
                                /\ pc' = "run"
                                /\ UNCHANGED << max_value, jump_ok, goto >>
                           ELSE /\ max_value' = LastPage(total', ps)
                                /\ jump_ok' = ~raises
                                /\ goto' = gval
                                /\ IF Button("ir", button) /\ ~raises
                                   THEN page' = gval /\ pc' = "run"
                                   ELSE page' = pg /\ pc' = "idle"

\* a run started by a widget of the monitor (the login form is not submitted)
\* while nothing happens around it
ScriptRun(crit_in, ok_in, lt_in, ps, plat, g_in, button, tb) ==
    ScriptRunOn(Quiet, crit_in, ok_in, lt_in, ps, plat, g_in, button, FALSE, FALSE, tb)

(***************************************************************************)
(* Init: a new session.  Nothing is in st.session_state, so the first run  *)
(* finds page = 1, both flags False and last_toggle None; the selectboxes  *)
(* show index 1 (100) and 'EDI'.  Nothing is drawn yet; the app is         *)
(* deployed with or without secrets, and no engine is cached.              *)
(***************************************************************************)
Init ==
    /\ njobs \in StoreSizes
    /\ now = today
    /\ secrets_ok \in BOOLEAN
    /\ cached = FALSE
    /\ page_size = PageSizes[2]
    /\ plataforma = "EDI"
    /\ page = 1
    /\ show_only_crit = FALSE
    /\ show_only_ok = FALSE
    /\ last_toggle = None
    /\ goto = 1
    /\ start_date = StartDate(today)
    /\ end_date = EndDate(today)
    /\ shown_page = 0
    /\ offset = 0
    /\ total = 0
    /\ df = << >>
    /\ crit_mask = << >>
    /\ crit_count = 0
    /\ ok_count = 0
    /\ display_df = << >>
    /\ prev_disabled = TRUE
    /\ next_disabled = TRUE
    /\ crit_disabled = TRUE
    /\ ok_disabled = TRUE
    /\ max_value = 1
    /\ jump_ok = FALSE
    /\ jump_invalid = FALSE
    /\ pc = "run"
    /\ event = "start"
    /\ recent = None
    /\ both_in = FALSE
    /\ drawn = {}
    /\ rows_html = << >>

(***************************************************************************)
(* The operator's events.  Each starts one run of the script; the ...In    *)
(* form of an event tells what happens around that run.                    *)
(***************************************************************************)
\* the first run of the session, and the run st.rerun() asks for
RerunIn(env) ==
    /\ pc = "run"
    /\ \E tb \in TieBreaks :
         ScriptRunOn(env, show_only_crit, show_only_ok, last_toggle, page_size,
                     plataforma, goto, None, FALSE, FALSE, tb)
    /\ event' = IF event = "start" THEN "select" ELSE event
    /\ UNCHANGED recent

Rerun == RerunIn(Quiet)

\* "Conectar" of the login form.  Without secrets the form is drawn in the
\* sidebar in every run, before the engine is looked at, so it can be
\* submitted whenever a run has ended.
ConectarIn(env, fresh) ==
    /\ ~secrets_ok
    /\ pc \in { "login", "idle", "failed" }
    /\ \E tb \in TieBreaks :
         ScriptRunOn(env, show_only_crit, show_only_ok, last_toggle, page_size,
                     plataforma, goto, None, TRUE, fresh, tb)
    /\ event' = "select"
    /\ UNCHANGED recent

Conectar == \E fresh \in BOOLEAN : ConectarIn(Quiet, fresh)

\* A widget that is not one of the monitor's controls changes: the selectbox
\* of Job Ids below the table, or a widget of the API tester tab, which the
\* script draws after monitor_ui has returned.  The script runs with the
\* session as it is.
OtherWidgetIn(env) ==
    /\ (pc = "idle" /\ "ir" \in drawn) \/ pc = "login"
    /\ \E tb \in TieBreaks :
         ScriptRunOn(env, show_only_crit, show_only_ok, last_toggle, page_size,
                     plataforma, goto, None, FALSE, FALSE, tb)
    /\ event' = "select"
    /\ UNCHANGED recent

OtherWidget == OtherWidgetIn(Quiet)

\* the selectboxes are drawn before the queries, so also in a run that a
\* failing query ends
SelectPageSizeIn(env, i) ==
    /\ pc \in { "idle", "failed" }
    /\ PageSizes[i] # page_size
    /\ \E tb \in TieBreaks :
         ScriptRunOn(env, show_only_crit, show_only_ok, last_toggle, PageSizes[i],
                     plataforma, goto, None, FALSE, FALSE, tb)
    /\ event' = "select"
    /\ UNCHANGED recent

SelectPageSize(i) == SelectPageSizeIn(Quiet, i)

SelectPlataformaIn(env, i) ==
    /\ pc \in { "idle", "failed" }
    /\ plataformas[i] # plataforma
    /\ \E tb \in TieBreaks :
         ScriptRunOn(env, show_only_crit, show_only_ok, last_toggle, page_size,
                     plataformas[i], goto, None, FALSE, FALSE, tb)
    /\ event' = "select"
    /\ UNCHANGED recent

SelectPlataforma(i) == SelectPlataformaIn(Quiet, i)

\* a click on "Ver SOLO errores criticos (rojo)"; the checkbox is drawn
\* disabled while show_only_ok is set
ToggleCritToFirstPage ==
    /\ pc = "idle"
    /\ ~crit_disabled
    /\ show_only_crit' = ~show_only_crit
    /\ page' = 1
    /\ pc' = "run"
    /\ event' = "crit"
    /\ recent' = IF ~show_only_crit THEN "crit" ELSE None
    /\ UNCHANGED << njobs, now, secrets_ok, cached, page_size, plataforma, show_only_ok,
                    last_toggle, goto, start_date, end_date, shown_page, offset, total,
                    df, crit_mask, crit_count, ok_count, display_df, prev_disabled,
                    next_disabled, crit_disabled, ok_disabled, max_value, jump_ok,
                    jump_invalid, both_in, drawn, rows_html >>

ToggleCrit ==
    /\ pc = "idle"
    /\ ~crit_disabled
    /\ \E tb \in TieBreaks :
         ScriptRun(~show_only_crit, show_only_ok, last_toggle, page_size, plataforma,
                   goto, None, tb)
    /\ event' = "crit"
    /\ recent' = IF ~show_only_crit THEN "crit" ELSE None

\* a click on "Ver SOLO OK (verde)"; drawn disabled while show_only_crit is set
ToggleOk ==
    /\ pc = "idle"
    /\ ~ok_disabled
    /\ \E tb \in TieBreaks :
         ScriptRun(show_only_crit, ~show_only_ok, last_toggle, page_size, plataforma,
                   goto, None, tb)
    /\ event' = "ok"
    /\ recent' = IF ~show_only_ok THEN "ok" ELSE None

\* The operator turns one filter on and clicks the other checkbox before the
\* browser has drawn it disabled: the run begins with both flags true.
ToggleOkEarly ==
    /\ pc = "idle"
    /\ event = "crit" /\ show_only_crit /\ ~show_only_ok
    /\ \E tb \in TieBreaks :
         ScriptRun(show_only_crit, TRUE, last_toggle, page_size, plataforma, goto, None, tb)
    /\ event' = "early"
    /\ recent' = "ok"

ToggleCritEarly ==
    /\ pc = "idle"
    /\ event = "ok" /\ show_only_ok /\ ~show_only_crit
    /\ \E tb \in TieBreaks :
         ScriptRun(TRUE, show_only_ok, last_toggle, page_size, plataforma, goto, None, tb)
    /\ event' = "early"
    /\ recent' = "crit"

\* A restoration of the session's state that sets both flags, with any
\* last_toggle.
RestoreState(lt) ==
    /\ pc = "idle"
    /\ \E tb \in TieBreaks :
         ScriptRun(TRUE, TRUE, lt, page_size, plataforma, goto, None, tb)
    /\ event' = "restore"
    /\ recent' = lt

\* A click on "Anterior" or "Siguiente" reaches the server with the button
\* as the browser shows it: after st.rerun(), until the run it asked for has
\* drawn the buttons again (pc = "run"), that is the button of the run before.
\* The click's run replaces the pending one.
ClickAnteriorIn(env) ==
    /\ pc \in { "idle", "run" }
    /\ ~prev_disabled
    /\ \E tb \in TieBreaks :
         ScriptRunOn(env, show_only_crit, show_only_ok, last_toggle, page_size,
                     plataforma, goto, "prev", FALSE, FALSE, tb)
    /\ event' = "nav"
    /\ UNCHANGED recent

ClickAnterior == ClickAnteriorIn(Quiet)

ClickSiguienteIn(env) ==
    /\ pc \in { "idle", "run" }
    /\ ~next_disabled
    /\ \E tb \in TieBreaks :
         ScriptRunOn(env, show_only_crit, show_only_ok, last_toggle, page_size,
                     plataforma, goto, "next", FALSE, FALSE, tb)
    /\ event' = "nav"
    /\ UNCHANGED recent

ClickSiguiente == ClickSiguienteIn(Quiet)

\* the operator types n into "Ir a pagina" and the input commits it
TypeGoto(n) ==
    /\ pc = "idle"
    /\ jump_ok
    /\ n # goto
    /\ Accepts(n, max_value)
    /\ \E tb \in TieBreaks :
         ScriptRun(show_only_crit, show_only_ok, last_toggle, page_size, plataforma,
                   n, None, tb)
    /\ event' = "select"
    /\ UNCHANGED recent

\* "Ir" is pressed while the box holds n: the value the input holds, or a
\* value the operator typed and the input did not accept
ClickIr(n) ==
    /\ pc = "idle"
    /\ jump_ok
    /\ n = goto \/ ~Accepts(n, max_value)
    /\ \E tb \in TieBreaks :
         ScriptRun(show_only_crit, show_only_ok, last_toggle, page_size, plataforma,
                   n, "ir", tb)
    /\ event' = "ir"
    /\ UNCHANGED recent

Next ==
    \/ Rerun
    \/ Conectar
    \/ OtherWidget
    \/ \E i \in 1..Len(PageSizes) : SelectPageSize(i)
    \/ \E i \in 1..Len(plataformas) : SelectPlataforma(i)
    \/ ToggleCrit
    \/ ToggleOk
    \/ ToggleOkEarly
    \/ ToggleCritEarly
    \/ \E lt \in { None, "crit", "ok" } : RestoreState(lt)
    \/ ClickAnterior
    \/ ClickSiguiente
    \/ \E n \in 0..MaxGoto : TypeGoto(n)
    \/ \E n \in 0..MaxGoto : ClickIr(n)

Spec == Init /\ [][Next]_vars

(***************************************************************************)
(* Navigation alone: on page 1 the operator chooses a page size and a      *)
(* platform, and from then on only presses "Anterior" and "Siguiente".     *)
(***************************************************************************)
NavSelectPageSizeIn(env, i) == event = "select" /\ SelectPageSizeIn(env, i)

NavSelectPageSize(i) == NavSelectPageSizeIn(Quiet, i)

NavSelectPlataformaIn(env, i) == event = "select" /\ SelectPlataformaIn(env, i)

NavSelectPlataforma(i) == NavSelectPlataformaIn(Quiet, i)

NextNav ==
    \/ Rerun
    \/ Conectar
    \/ \E i \in 1..Len(PageSizes) : NavSelectPageSize(i)
    \/ \E i \in 1..Len(plataformas) : NavSelectPlataforma(i)
    \/ ClickAnterior
    \/ ClickSiguiente

SpecNav == Init /\ [][NextNav]_vars

(***************************************************************************)
(* "Siguiente" alone: on page 1 the operator chooses a page size and a     *)
(* platform, and from then on presses nothing but "Siguiente".  The run    *)
(* st.rerun() asks for always takes place; whether the operator clicks is  *)
(* left open.                                                              *)
(***************************************************************************)
NextSiguiente ==
    \/ Rerun
    \/ Conectar
    \/ \E i \in 1..Len(PageSizes) : NavSelectPageSize(i)
    \/ \E i \in 1..Len(plataformas) : NavSelectPlataforma(i)
    \/ ClickSiguiente

SpecSiguiente ==
    /\ Init
    /\ [][NextSiguiente]_vars
    /\ WF_vars(Rerun)

(***************************************************************************)
(* The operator alone: every event of Next but the restoration of the      *)
(* session's state.                                                        *)
(***************************************************************************)
NextOperator ==
    \/ Rerun
    \/ Conectar
    \/ OtherWidget
    \/ \E i \in 1..Len(PageSizes) : SelectPageSize(i)
    \/ \E i \in 1..Len(plataformas) : SelectPlataforma(i)
    \/ ToggleCrit
    \/ ToggleOk
    \/ ToggleOkEarly
    \/ ToggleCritEarly
    \/ ClickAnterior
    \/ ClickSiguiente
    \/ \E n \in 0..MaxGoto : TypeGoto(n)
    \/ \E n \in 0..MaxGoto : ClickIr(n)

SpecOperator == Init /\ [][NextOperator]_vars

(***************************************************************************)
(* A writer and the clock.  Another process inserts a job into LegacyJobs, *)
(* or removes the job it inserted last.  The count query and the page      *)
(* query run in two transactions ("with engine.begin()" twice,             *)
(* autocommit), so a commit of the writer between them is seen by the page *)
(* query alone; a commit between two runs is seen by both queries of the   *)
(* next run.  Midnight passes between two runs, or between the two reads   *)
(* of the clock of one run.  Both may happen in any run.                   *)
(***************************************************************************)
Written(n) == { m \in StoreSizes : m = n + 1 \/ m = n - 1 }

\* midnight may pass while the clock has a further day to show
MayPass == { m \in BOOLEAN : m => (now + 24) \in Days }

WriterEnvs ==
    { [ n_page |-> m, fail |-> None, midnight |-> mid, refused |-> FALSE ] :
          m \in Written(njobs) \cup { njobs }, mid \in MayPass }

Midnight ==
    /\ (now + 24) \in Days
    /\ now' = now + 24
    /\ UNCHANGED << njobs, secrets_ok, cached, page_size, plataforma, page,
                    show_only_crit, show_only_ok, last_toggle, goto, start_date,
                    end_date, shown_page, offset, total, df, crit_mask, crit_count,
                    ok_count, display_df, prev_disabled, next_disabled, crit_disabled,
                    ok_disabled, max_value, jump_ok, jump_invalid, pc, event, recent,
                    both_in, drawn, rows_html >>

Write ==
    /\ njobs' \in Written(njobs)
    /\ UNCHANGED << now, secrets_ok, cached, page_size, plataforma, page,
                    show_only_crit, show_only_ok, last_toggle, goto, start_date,
                    end_date, shown_page, offset, total, df, crit_mask, crit_count,
                    ok_count, display_df, prev_disabled, next_disabled, crit_disabled,
                    ok_disabled, max_value, jump_ok, jump_invalid, pc, event, recent,
                    both_in, drawn, rows_html >>

NextWriter ==
    \/ \E env \in WriterEnvs : RerunIn(env)
    \/ \E env \in WriterEnvs : \E fresh \in BOOLEAN : ConectarIn(env, fresh)
    \/ \E env \in WriterEnvs : OtherWidgetIn(env)
    \/ \E env \in WriterEnvs : \E i \in 1..Len(PageSizes) : NavSelectPageSizeIn(env, i)
    \/ \E env \in WriterEnvs : \E i \in 1..Len(plataformas) : NavSelectPlataformaIn(env, i)
    \/ \E env \in WriterEnvs : ClickAnteriorIn(env)
    \/ \E env \in WriterEnvs : ClickSiguienteIn(env)
    \/ Write
    \/ Midnight

SpecWriter == Init /\ [][NextWriter]_vars

(***************************************************************************)
(* Failures.  conn.execute raises when the server is unreachable or the    *)
(* query times out, in any run; monitor_ui does not catch it, so the run   *)
(* ends there and Streamlit reports the exception.  Before get_engine has  *)
(* returned an engine the server may refuse the connection.  The operator  *)
(* then runs the script again, or uses what is drawn.                      *)
(***************************************************************************)
Queries == { "count", "page" }

FailEnvs ==
    { [ n_page |-> njobs, fail |-> q, midnight |-> FALSE, refused |-> r ] :
          q \in Queries \cup { None }, r \in BOOLEAN }

RerunAfterFailureIn(env) ==
    /\ pc \in { "failed", "refused" }
    /\ \E tb \in TieBreaks :
         ScriptRunOn(env, show_only_crit, show_only_ok, last_toggle, page_size,
                     plataforma, goto, None, FALSE, FALSE, tb)
    /\ event' = IF event = "start" THEN "select" ELSE event
    /\ UNCHANGED recent

NextFail ==
    \/ \E env \in FailEnvs : RerunIn(env)
    \/ \E env \in FailEnvs : \E fresh \in BOOLEAN : ConectarIn(env, fresh)
    \/ \E env \in FailEnvs : OtherWidgetIn(env)
    \/ \E env \in FailEnvs : \E i \in 1..Len(PageSizes) : NavSelectPageSizeIn(env, i)
    \/ \E env \in FailEnvs : \E i \in 1..Len(plataformas) : NavSelectPlataformaIn(env, i)
    \/ \E env \in FailEnvs : ClickAnteriorIn(env)
    \/ \E env \in FailEnvs : ClickSiguienteIn(env)
    \/ \E env \in FailEnvs : RerunAfterFailureIn(env)

SpecFail == Init /\ [][NextFail]_vars

(***************************************************************************)
(* Properties.                                                             *)
(***************************************************************************)
\* a run has drawn the page
Rendered == shown_page > 0

\* C1: whenever the filter state is observed (when display_df is chosen and
\* when a run ends), show_only_crit and show_only_ok are not both true, also
\* after a restoration that set both.
C1_NeverBothFilters ==
    /\ ~(show_only_crit /\ show_only_ok)
    /\ "checkboxes" \in drawn => ~(crit_disabled /\ ok_disabled)

C1_Witness ==
    /\ pc = "idle"
    /\ event = "restore"
    /\ both_in
    /\ show_only_ok
    /\ ~show_only_crit

\* C2: when a run begins with both flags true, the filter the operator
\* turned on most recently is the one kept and the other is forced off.
C2_LastToggleWins ==
    (both_in /\ recent # None) =>
        /\ show_only_crit = (recent = "crit")
        /\ show_only_ok = (recent = "ok")

\* The four critical phrases, as literal texts.
Phrase1 == <<
    "E","r","r","o","r"," ","a","l"," ","d","a","r"," ","d","e"," ","a","l","t","a"," ","l",
    "a"," ","e","m","p","r","e","s","a" >>

Phrase2 == <<
    "E","r","r","o","r"," ","e","n"," ","e","l"," ","a","l","t","a"," ","d","e"," ","l","a",
    " ","e","m","p","r","e","s","a","."," ","-"," ","I","n","v","a","l","i","d"," ","a","r",
    "g","u","m","e","n","t"," ","s","u","p","p","l","i","e","d"," ","f","o","r"," ","f","o",
    "r","e","a","c","h","(",")" >>

Phrase3 == <<
    "N","o"," ","e","x","i","s","t","e"," ","l","a"," ","e","m","p","r","e","s","a",","," ",
    "n","o"," ","s","e"," ","c","r","e","o"," ","e","l"," ","u","s","u","a","r","i","o" >>

Phrase4 == <<
    "N","o"," ","e","x","i","s","t","e"," ","e","l"," ","u","s","u","a","r","i","o",","," ",
    "n","o"," ","s","e"," ","c","r","e","o"," ","e","l"," ","u","s","u","a","r","i","o" >>

Phrase2Head == <<
    "E","r","r","o","r"," ","e","n"," ","e","l"," ","a","l","t","a"," ","d","e"," ","l","a",
    " ","e","m","p","r","e","s","a","." >>

Phrase2Tail == <<
    "I","n","v","a","l","i","d"," ","a","r","g","u","m","e","n","t"," ","s","u","p","p","l",
    "i","e","d"," ","f","o","r"," ","f","o","r","e","a","c","h","(",")" >>

\* phrase occurs in s at position i (1-based), compared without regard to case
OccursAt(phrase, s, i) ==
    /\ i >= 1
    /\ i + Len(phrase) - 1 <= Len(s)
    /\ \A j \in 1..Len(phrase) : Fold(s[i + j - 1]) = Fold(phrase[j])

ContainsPhrase(phrase, s) == \E i \in 1..Len(s) : OccursAt(phrase, s, i)

AllWhitespace(s, from, to) == \A j \in from..to : s[j] \in Whitespace

\* the second phrase with any run of whitespace, also none, on each side of
\* its hyphen
ContainsPhrase2Spaced(s) ==
    \E i \in 1..Len(s) : \E h \in 1..Len(s) :
        /\ OccursAt(Phrase2Head, s, i)
        /\ h >= i + Len(Phrase2Head)
        /\ s[h] = "-"
        /\ AllWhitespace(s, i + Len(Phrase2Head), h - 1)
        /\ \E k \in (h + 1)..Len(s) :
             /\ AllWhitespace(s, h + 1, k - 1)
             /\ OccursAt(Phrase2Tail, s, k)

\* the text of a reason as the claim reads it: NULL has no text
ReasonText(v) == IF v.null THEN << >> ELSE v.text

LiteralCritical ==
    Table([r \in 1..Len(ReasonValues) |->
        \E p \in { Phrase1, Phrase2, Phrase3, Phrase4 } :
            ContainsPhrase(p, ReasonText(ReasonValues[r]))])

SpacedCritical ==
    Table([r \in 1..Len(ReasonValues) |->
        \/ \E p \in { Phrase1, Phrase3, Phrase4 } :
               ContainsPhrase(p, ReasonText(ReasonValues[r]))
        \/ ContainsPhrase2Spaced(ReasonText(ReasonValues[r]))])

\* C3 as written: a row is flagged in crit_mask exactly when its reason
\* contains, in any case, one of the four literal phrases.
C3_LiteralPhrases ==
    \A i \in 1..Len(df) : crit_mask[i] = LiteralCritical[ReasonIndex(df[i])]

\* C3 amended: a row is flagged in crit_mask exactly when its reason
\* contains, in any case, phrase 1, 3 or 4, or phrase 2 with any amount of
\* whitespace (also none) on each side of its hyphen; NULL and the empty
\* text are not flagged.
C3_SpacedPhrases ==
    /\ Len(crit_mask) = Len(df)
    /\ \A i \in 1..Len(df) : crit_mask[i] = SpacedCritical[ReasonIndex(df[i])]

C3_Witness ==
    /\ Rendered
    /\ \E i \in 1..Len(df) : MotivoRechazo(df[i]) = Reason_ForeachTight /\ crit_mask[i]
    /\ \E i \in 1..Len(df) : MotivoRechazo(df[i]) = Reason_UpperEmbedded /\ crit_mask[i]
    /\ \E i \in 1..Len(df) : MotivoRechazo(df[i]) = Reason_LongS /\ crit_mask[i]
    /\ \E i \in 1..Len(df) : MotivoRechazo(df[i]) = Reason_ForeachVtab /\ crit_mask[i]
    /\ \E i \in 1..Len(df) : MotivoRechazo(df[i]) = Reason_DottedUsuario /\ crit_mask[i]
    /\ \E i \in 1..Len(df) : MotivoRechazo(df[i]) = NULL /\ ~crit_mask[i]
    /\ \E i \in 1..Len(df) : MotivoRechazo(df[i]) = Text(<< >>) /\ ~crit_mask[i]

\* C4: crit_count + ok_count is the number of rows of the page, and
\* crit_count is the number of those rows flagged critical; the counts are
\* over the page, not over total.
C4_CountsOverPage ==
    /\ crit_count + ok_count = Len(df)
    /\ crit_count = Cardinality({ i \in 1..Len(df) : crit_mask[i] })
    /\ Len(df) <= page_size

C4_Witness ==
    /\ Rendered
    /\ total = 3
    /\ df = << 1, 2, 3 >>
    /\ MotivoRechazo(1) = Reason_AltaEmpresa
    /\ MotivoRechazo(2) = NULL
    /\ MotivoRechazo(3) = Reason_Timeout
    /\ crit_mask = << TRUE, FALSE, FALSE >>
    /\ crit_count = 1
    /\ ok_count = 2

\* n is max(ceil(tot / psz), 1): the least n >= 1 with n * psz >= tot
IsLastPage(n, tot, psz) ==
    /\ n >= 1
    /\ n * psz >= tot
    /\ n > 1 => (n - 1) * psz < tot

\* C5: the last page the jump control offers is max(ceil(total/page_size), 1),
\* and a run that draws "Siguiente" draws it disabled exactly when
\* offset + page_size >= total.
C5_LastPageAndNext ==
    /\ pc = "idle" => IsLastPage(max_value, total, page_size)
    /\ (Rendered /\ "siguiente" \in drawn) =>
          (next_disabled <=> (offset + page_size >= total))

C5_Witness ==
    /\ pc = "idle"
    /\ total = 100
    /\ page_size = 50
    /\ shown_page = 2
    /\ max_value = 2
    /\ next_disabled

\* C6: a jump changes the page to N only when 1 <= N <= last page; with a
\* target outside that range the page stays what it was.  With total = 101
\* and page_size = 50 page 4 is not accepted, page 3 is, and on page 3
\* "Siguiente" is disabled.
C6_JumpOnlyInRange ==
    [][ /\ (event' = "ir" /\ pc = "idle") =>
             /\ page' >= 1
             /\ IsLastPage(max_value', total', page_size') /\ page' <= max_value'
             /\ jump_invalid' => page' = page
        /\ (pc' = "idle" /\ jump_ok' /\ total' = 101 /\ page_size' = 50) =>
             /\ ~Accepts(4, max_value')
             /\ Accepts(3, max_value')
             /\ shown_page' = 3 => next_disabled'
      ]_vars

\* C7: the rows shown under OnlyCritical and those shown under OnlyOk are
\* disjoint and together are the page's rows; under Neither all rows are
\* shown.
C7_FilterPartition ==
    LET only_crit == DisplayDf(TRUE, FALSE, df, crit_mask)
        only_ok   == DisplayDf(FALSE, TRUE, df, crit_mask)
    IN  /\ Range(only_crit) \cap Range(only_ok) = {}
        /\ Range(only_crit) \cup Range(only_ok) = Range(df)
        /\ Len(only_crit) + Len(only_ok) = Len(df)
        /\ DisplayDf(FALSE, FALSE, df, crit_mask) = df
        /\ show_only_crit => display_df = only_crit
        /\ show_only_ok => display_df = only_ok
        /\ (~show_only_crit /\ ~show_only_ok) => display_df = df

C7_Witness ==
    /\ Rendered
    /\ show_only_ok
    /\ Len(display_df) > 0
    /\ Len(display_df) < Len(df)

\* C8: from page 1, with only "Anterior" and "Siguiente" pressed, the page
\* stays between 1 and the last page; "Anterior" is disabled at page <= 1.
C8_NavStaysInRange ==
    /\ page >= 1
    /\ page > 1 =>
          (page - 1) * page_size
              < SQL_COUNT(njobs, plat_param(plataforma), << start_date, end_date >>)
    /\ Rendered => (prev_disabled <=> (shown_page <= 1))
    /\ (pc = "idle" /\ Rendered) => (jump_ok /\ page <= max_value)

C8_Witness ==
    /\ pc = "idle"
    /\ event = "nav"
    /\ page = 3
    /\ shown_page = 3
    /\ next_disabled
    /\ ~prev_disabled

\* C9: two refreshes with the same window, platform, page and page size
\* against an unchanged store give the same total, the same rows in the same
\* order and the same counts.
C9_SameQuerySameResult ==
    [][ ( /\ Rendered
          /\ shown_page' = shown_page
          /\ page_size' = page_size
          /\ plataforma' = plataforma
          /\ start_date' = start_date
          /\ end_date' = end_date
          /\ njobs' = njobs )
        => ( /\ total' = total
             /\ df' = df
             /\ crit_count' = crit_count
             /\ ok_count' = ok_count ) ]_vars

\* C10: with no matching row and the session on page 1 the refresh shows
\* total 0, no rows, both counts 0, last page 1, and both buttons disabled.
C10_EmptyWindow ==
    ( /\ pc = "idle"
      /\ shown_page = 1
      /\ Where(njobs, plat_param(plataforma), << start_date, end_date >>) = {} )
    => ( /\ total = 0
         /\ df = << >>
         /\ crit_count = 0
         /\ ok_count = 0
         /\ max_value = 1
         /\ jump_ok
         /\ prev_disabled
         /\ next_disabled )

C10_Witness ==
    /\ pc = "idle"
    /\ shown_page = 1
    /\ njobs > 0
    /\ plataforma = "BajaEmpresa"
    /\ total = 0
    /\ df = << >>
    /\ next_disabled

\* C11: the page holds min(page_size, max(total - offset, 0)) rows, total
\* being the count of the same refresh, also when a writer inserts or
\* removes a job while the refresh runs.
C11_CountAndPageAgree ==
    Rendered => Len(df) = Min(page_size, Max(total - offset, 0))

\* the blocks that show counts or rows
ResultBlocks == { "semaforo", "metrics", "tabla" }

\* C12: a refresh whose count query or page query fails ends with the
\* error reported and draws no counts and no rows; whenever counts or rows
\* are drawn, both queries of that refresh were answered.
C12_NoPartialResult ==
    /\ pc = "failed" =>
          /\ drawn \cap ResultBlocks = {}
          /\ rows_html = << >>
    /\ drawn \cap ResultBlocks # {} =>
          /\ pc # "failed"
          /\ { "semaforo", "metrics" } \subseteq drawn
          /\ total = SQL_COUNT(njobs, plat_param(plataforma), << start_date, end_date >>)
          /\ \E tb \in TieBreaks :
                df = SQL_PAGE(njobs, plat_param(plataforma), << start_date, end_date >>,
                              offset, page_size, tb)
          /\ crit_count + ok_count = Len(df)

C12_Witness ==
    /\ pc = "failed"
    /\ njobs = MaxJobs
    /\ page = 2
    /\ total > 0
    /\ drawn = { "filtros" }

OnlyCritical == show_only_crit /\ ~show_only_ok
OnlyOk == show_only_ok /\ ~show_only_crit

\* the checkboxes as drawn: each is disabled exactly while the other filter
\* is active
DrawnDisabled ==
    "checkboxes" \in drawn =>
        /\ crit_disabled = show_only_ok
        /\ ok_disabled = show_only_crit

\* no step takes OnlyCritical to OnlyOk or OnlyOk to OnlyCritical
NoDirectSwitch ==
    /\ ~(OnlyCritical /\ OnlyOk')
    /\ ~(OnlyOk /\ OnlyCritical')

\* C14 as written: while one filter is active the other control is
\* disabled, so by the operator's actions alone the state never goes from
\* OnlyCritical directly to OnlyOk or back, and no refresh ever finds both
\* flags true.
C14_NeverDirectSwitch ==
    [][ /\ DrawnDisabled'
        /\ NoDirectSwitch
        /\ ~both_in'
        /\ ~(show_only_crit' /\ show_only_ok') ]_vars

\* C14 amended: while one filter is active the other control is drawn
\* disabled, so by clicks on controls that are drawn enabled the state never
\* goes from OnlyCritical directly to OnlyOk or back and no refresh begins
\* with both flags true; a click on the other control made before it was
\* drawn disabled begins a refresh with both flags true, which ends with
\* one filter active and may have switched the filter directly.
C14_NoDirectSwitchWhenDrawn ==
    [][ /\ DrawnDisabled'
        /\ ~(show_only_crit' /\ show_only_ok')
        /\ event' # "early" => (NoDirectSwitch /\ ~both_in')
        /\ (event' = "early" /\ pc = "idle" /\ both_in') => (OnlyCritical' \/ OnlyOk')
      ]_vars

C14_Witness ==
    /\ pc = "idle"
    /\ event = "early"
    /\ recent = "crit"
    /\ both_in
    /\ OnlyCritical
    /\ ok_disabled
    /\ ~crit_disabled

\* C15: turning the active filter off leads to Neither with last_toggle
\* None, turning a filter on sets last_toggle to that filter; at the end of
\* every refresh last_toggle = 'crit' implies show_only_crit, last_toggle =
\* 'ok' implies show_only_ok, and in Neither last_toggle is None.
C15_LastToggleTracked ==
    [][ /\ (event' = "crit" /\ ~show_only_crit /\ show_only_crit') => last_toggle' = "crit"
        /\ (event' = "ok" /\ ~show_only_ok /\ show_only_ok') => last_toggle' = "ok"
        /\ (event' = "crit" /\ OnlyCritical /\ ~show_only_crit') =>
              (~show_only_ok' /\ last_toggle' = None)
        /\ (event' = "ok" /\ OnlyOk /\ ~show_only_ok') =>
              (~show_only_crit' /\ last_toggle' = None)
        /\ pc' = "idle" =>
              /\ last_toggle' = "crit" => show_only_crit'
              /\ last_toggle' = "ok" => show_only_ok'
              /\ (~show_only_crit' /\ ~show_only_ok') => last_toggle' = None
      ]_vars

\* the flags crit_mask holds for the rows of display_df, in their order
ShownMask == DisplayDf(show_only_crit, show_only_ok, crit_mask, crit_mask)

CriticalRows == { i \in 1..Len(rows_html) : rows_html[i][2] = "row-critical" }

\* values of the reason column that are not texts
NonStringValues == { Number(0), Number(7), Number(120) }

\* NULL, the empty text and the values that are not texts are classified
\* alike for the mask and for the row class, as not critical
NoTextAgrees ==
    \A v \in NonStringValues \cup { NULL, Text(<< >>) } :
        /\ RowCritical(v) = IsCritical(v)
        /\ ~IsCritical(v)

\* C16: a row is drawn "row-critical" exactly when crit_mask counts it, so
\* the counts, the filter subsets and the highlighting agree; NULL, the
\* empty text and values that are not texts are classified alike by both
\* and are not critical.
C16_HighlightMatchesMask ==
    /\ "tabla" \in drawn =>
          /\ Len(rows_html) = Len(display_df)
          /\ \A i \in 1..Len(rows_html) :
                /\ rows_html[i][1] = display_df[i]
                /\ rows_html[i][2] \in { "row-critical", "row-ok" }
                /\ (rows_html[i][2] = "row-critical") <=> ShownMask[i]
          /\ show_only_crit => CriticalRows = 1..Len(rows_html)
          /\ show_only_ok => CriticalRows = {}
          /\ Cardinality(CriticalRows) = (IF show_only_ok THEN 0 ELSE crit_count)
    /\ NoTextAgrees

C16_Witness ==
    /\ pc = "idle"
    /\ "tabla" \in drawn
    /\ ~show_only_crit
    /\ ~show_only_ok
    /\ \E i \in 1..Len(rows_html) :
          /\ MotivoRechazo(rows_html[i][1]) = Reason_ForeachWide
          /\ rows_html[i][2] = "row-critical"
    /\ \E i \in 1..Len(rows_html) :
          /\ MotivoRechazo(rows_html[i][1]) = NULL
          /\ rows_html[i][2] = "row-ok"
    /\ \E i \in 1..Len(rows_html) :
          /\ MotivoRechazo(rows_html[i][1]) = Text(<< >>)
          /\ rows_html[i][2] = "row-ok"

\* the number of displayed rows is the count of the filter in force
DisplayedMatchesCounts ==
    Rendered =>
        /\ show_only_crit => Len(display_df) = crit_count
        /\ show_only_ok => Len(display_df) = ok_count
        /\ (~show_only_crit /\ ~show_only_ok) => Len(display_df) = crit_count + ok_count

\* the step is a click on one of the two filter checkboxes
FilterToggled ==
    /\ pc = "idle"
    /\ event' \in { "crit", "ok" }
    /\ (show_only_crit' # show_only_crit) \/ (show_only_ok' # show_only_ok)

\* C17: the number of displayed rows equals crit_count under OnlyCritical,
\* ok_count under OnlyOk and crit_count + ok_count under Neither, and
\* toggling a filter changes neither crit_count, ok_count nor total while
\* the store is unchanged.
C17_ToggleKeepsCounts ==
    [][ /\ DisplayedMatchesCounts'
        /\ (FilterToggled /\ njobs' = njobs) =>
              /\ total' = total
              /\ crit_count' = crit_count
              /\ ok_count' = ok_count ]_vars

\* the step is a run that begins with both flags true and last_toggle None
BothFoundTrueNoToggle ==
    /\ pc = "idle"
    /\ both_in'
    /\ event' \in { "early", "restore" }
    /\ (IF event' = "restore" THEN recent' ELSE last_toggle) = None

\* C18: when a refresh begins with both flags true and last_toggle None,
\* the resolution keeps show_only_crit true and forces show_only_ok false.
C18_DefaultKeepsCritical ==
    [][ BothFoundTrueNoToggle =>
          /\ show_only_crit'
          /\ ~show_only_ok'
          /\ display_df' = DisplayDf(TRUE, FALSE, df', crit_mask') ]_vars

C18_Witness ==
    /\ pc = "idle"
    /\ event = "restore"
    /\ recent = None
    /\ last_toggle = None
    /\ both_in
    /\ OnlyCritical
    /\ Len(display_df) = crit_count
    /\ crit_count > 0

\* C19: the offset given to the page query is (page - 1) * page_size for
\* the session's page, never negative, and the limit is page_size: the rows
\* are those at positions offset + 1 .. offset + page_size of the ordered
\* window.
C19_OffsetAndLimit ==
    /\ offset >= 0
    /\ pc = "idle" => page = shown_page
    /\ Rendered =>
          /\ offset = (shown_page - 1) * page_size
          /\ Len(df) <= page_size
          /\ \E tb \in TieBreaks :
                LET ordered == SqlOrderTable[njobs, plat_param(plataforma),
                                             << start_date, end_date >>, tb]
                IN  /\ Len(df) = Min(page_size, Max(Len(ordered) - offset, 0))
                    /\ \A i \in 1..Len(df) : df[i] = ordered[offset + i]

C19_Witness ==
    /\ pc = "idle"
    /\ shown_page = 3
    /\ page_size = 50
    /\ offset = 100
    /\ total = 101
    /\ Len(df) = 1

\* C20: in every refresh, whatever the operator did before (Anterior,
\* Siguiente, a jump, another page size, another platform), the session's
\* page lies between 1 and the last page of that refresh's total and page
\* size, so the number input is given a value inside its bounds.
C20_PageWithinBounds ==
    Rendered =>
        /\ shown_page >= 1
        /\ IsLastPage(LastPage(total, page_size), total, page_size)
        /\ shown_page <= LastPage(total, page_size)
        /\ ~NumberInputRaises(shown_page, LastPage(total, page_size))
        /\ pc = "idle" => (jump_ok /\ { "tabla", "warning" } \cap drawn # {})

\* the step is a click on a filter checkbox, drawn enabled or not yet
\* redrawn
ToggleStep == pc = "idle" /\ event' \in { "crit", "ok", "early" }

\* the step is "Anterior", "Siguiente" or "Ir", or the run st.rerun() starts
NavigationStep == (pc = "idle" /\ event' \in { "nav", "ir" }) \/ pc = "run"

\* C21: a filter toggle leaves the session's page unchanged; "Anterior",
\* "Siguiente" and the jump leave show_only_crit, show_only_ok and
\* last_toggle unchanged; neither changes the page size or the platform.
C21_Frame ==
    [][ /\ ToggleStep =>
              /\ page' = page
              /\ page_size' = page_size /\ plataforma' = plataforma
        /\ NavigationStep =>
              /\ show_only_crit' = show_only_crit
              /\ show_only_ok' = show_only_ok
              /\ last_toggle' = last_toggle
              /\ page_size' = page_size /\ plataforma' = plataforma ]_vars

C21_Witness ==
    /\ pc = "idle"
    /\ event = "nav"
    /\ page = 2
    /\ shown_page = 2
    /\ OnlyOk

\* the last page is drawn, with "Siguiente" disabled
AtLastPage ==
    /\ pc = "idle"
    /\ shown_page = page
    /\ page = LastPage(total, page_size)
    /\ next_disabled

\* the page size and the platform are chosen for good
Settled(ps, plat) == <>[](page_size = ps /\ plataforma = plat)

\* the operator presses "Siguiente" whenever it is enabled
PressesSiguiente == WF_vars(ClickSiguiente)

\* the monitor stays connected to the store
StaysConnected == <>[](pc # "login")

\* C22: once page size and platform are settled (total unchanged), pressing
\* "Siguiente" whenever it is enabled, from page 1, ends on the last page with
\* "Siguiente" disabled; each click moves one page forward, so every page of
\* 1..lastPage is passed, and every page drawn has rows when total > 0.
C22_SiguienteReachesLastPage ==
    /\ \A i \in 1..Len(PageSizes), j \in 1..Len(plataformas) :
          (StaysConnected /\ PressesSiguiente /\ Settled(PageSizes[i], plataformas[j]))
              => <>[]AtLastPage
    /\ [][ (pc = "idle" /\ event' = "nav") => page' = page + 1 ]_vars
    /\ [](Rendered =>
            /\ shown_page \in 1..LastPage(total, page_size)
            /\ total > 0 => Len(df) > 0)

C22_Witness ==
    /\ AtLastPage
    /\ event = "nav"
    /\ page = 3
    /\ page_size = 50
    /\ total = 101
    /\ Len(df) = 1

====
